---- MODULE Spec2Model ----
(***************************************************************************)
(* A model of the knowledge-base engine of metrics_knowledge_base.py: the  *)
(* HEAD parser (getDictHeadKB), the lazy row loader (getKBLines), the      *)
(* column resolver (get_col_for / get_data_for), the three-pass percentile *)
(* engine and score computer (insert_metrics) and the serializer           *)
(* (save_changes).                                                         *)
(*                                                                         *)
(* Representation.  A field of a data row is a sequence of tokens whose    *)
(* concatenation is the field's text: <<>> is the empty string,            *)
(* <<"N","F">> is 'NF', <<"2","5">> is '25', <<"PERSON","+","ARTIST">> is  *)
(* 'PERSON+ARTIST'.  split, int, len and "%.2f" are computed on tokens.    *)
(* Python floats are modelled as exact rationals <<n, d>>; "%.2f" rounds   *)
(* the exact value half-to-even.  A Python dict is a sequence of           *)
(* <<key, value>> pairs in insertion order.  An exception raised by a      *)
(* handler is the field exc of res; "" means the call returned.            *)
(***************************************************************************)
EXTENDS Integers, Sequences, FiniteSets, TLC

VARIABLES
    head,          \* the HEAD section of the KB file (read-only input)
    disk,          \* the DATA section of the KB file (read-only input)
    tagHash,       \* hash() of every type tag in this interpreter run
    headKB,        \* self.headKB    : type tag -> dict(attribute name -> offset)
    ent_type_col,  \* self.ent_type_col
    kb_loaded,     \* self._kb_loaded
    lines,         \* self.lines
    metrics,       \* self.metrics      : bucket -> metric -> list of values
    metric_index,  \* self.metric_index : bucket -> metric -> value -> percentile
    pc,            \* position inside insert_metrics ("idle" between calls)
    line_num,      \* loop variable of the pass in progress
    save_flag,     \* the save_changes argument of the insert_metrics in progress
    out,           \* the file written by save_changes
    res            \* the last call: its name, arguments and outcome

vars == <<head, disk, tagHash, headKB, ent_type_col, kb_loaded, lines, metrics,
          metric_index, pc, line_num, save_flag, out, res>>

-----------------------------------------------------------------------------
(* Module-level constants of the source.                                   *)

metrics_names == <<"SCORE WIKI", "SCORE METRICS", "CONFIDENCE">>
stats_names == <<"WIKI BACKLINKS", "WIKI HITS", "WIKI PRIMARY SENSE">>
all_stats == stats_names \o metrics_names
type_delim == "+"
GENERIC == "__generic__"
STATS == "__stats__"

-----------------------------------------------------------------------------
(* Bounds of the model.                                                    *)

MaxRows == 2

-----------------------------------------------------------------------------
(* Generic helpers: sequences, Python dicts, partial maps, rationals.      *)

Range(s) == {s[i] : i \in DOMAIN s}

Max(a, b) == IF a >= b THEN a ELSE b

RECURSIVE SumSeq(_)
SumSeq(s) == IF s = <<>> THEN 0 ELSE Head(s) + SumSeq(Tail(s))

RECURSIVE Flatten(_)
Flatten(ss) == IF ss = <<>> THEN <<>> ELSE Head(ss) \o Flatten(Tail(ss))

Repeat(x, n) == [i \in 1..n |-> x]

\* The key None of a Python dict, and the value None returned by dict.get.
NoneKey == "<None>"
NoneVal == -1

DictKeys(d) == [i \in DOMAIN d |-> d[i][1]]
DictHas(d, k) == \E i \in DOMAIN d : d[i][1] = k
DictGet(d, k) == IF DictHas(d, k) THEN d[CHOOSE i \in DOMAIN d : d[i][1] = k][2] ELSE NoneVal
DictSet(d, k, v) ==
    IF DictHas(d, k) THEN [i \in DOMAIN d |-> IF d[i][1] = k THEN <<k, v>> ELSE d[i]]
    ELSE Append(d, <<k, v>>)

MapPut(f, k, v) == [x \in (DOMAIN f) \cup {k} |-> IF x = k THEN v ELSE f[x]]
EmptyMap == [x \in {} |-> 0]

RECURSIVE GCD(_, _)
GCD(a, b) == IF b = 0 THEN a ELSE GCD(b, a % b)

\* n/d in lowest terms, d > 0, n >= 0.
Rat(n, d) == LET g == GCD(n, d) IN <<n \div g, d \div g>>
RatLeq(p, q) == p[1] * q[2] <= q[1] * p[2]
RatOne == <<1, 1>>
RatZero == <<0, 1>>
RatMin(p, q) == IF RatLeq(p, q) THEN p ELSE q

-----------------------------------------------------------------------------
(* Text conversions on token sequences.                                    *)

Digits == <<"0", "1", "2", "3", "4", "5", "6", "7", "8", "9">>
DigitVal(c) == (CHOOSE i \in DOMAIN Digits : Digits[i] = c) - 1
IsDigit(c) == c \in Range(Digits)

\* len(str): every token but a digit, a letter or a delimiter is a word
\* whose length TLC's Len gives.
StrLen(f) == SumSeq([i \in DOMAIN f |-> Len(f[i])])

\* int(str) for a string of decimal digits; anything else raises ValueError.
IsInt(f) == f # <<>> /\ \A i \in DOMAIN f : IsDigit(f[i])
RECURSIVE ParseInt(_)
ParseInt(f) == IF f = <<>> THEN 0 ELSE 10 * ParseInt(SubSeq(f, 1, Len(f) - 1)) + DigitVal(f[Len(f)])

\* str(n) for n >= 0.
RECURSIVE IntStr(_)
IntStr(n) == IF n < 10 THEN <<Digits[n + 1]>> ELSE Append(IntStr(n \div 10), Digits[(n % 10) + 1])

\* str.split(delim): the pieces between the delimiter tokens, each piece
\* joined back into one string.
RECURSIVE Concat(_)
Concat(f) == IF f = <<>> THEN "" ELSE Head(f) \o Concat(Tail(f))
RECURSIVE SplitAt(_, _, _)
SplitAt(f, delim, cur) ==
    IF f = <<>> THEN <<Concat(cur)>>
    ELSE IF Head(f) = delim THEN <<Concat(cur)>> \o SplitAt(Tail(f), delim, <<>>)
    ELSE SplitAt(Tail(f), delim, Append(cur, Head(f)))
Split(f, delim) == SplitAt(f, delim, <<>>)

\* OrderedSet(seq): duplicates collapse, order of first appearance is kept.
RECURSIVE OrderedSet(_)
OrderedSet(s) ==
    IF s = <<>> THEN <<>>
    ELSE LET r == OrderedSet(SubSeq(s, 1, Len(s) - 1))
         IN IF s[Len(s)] \in Range(r) THEN r ELSE Append(r, s[Len(s)])

\* a | b on OrderedSets.
OrderedUnion(a, b) == OrderedSet(a \o b)

-----------------------------------------------------------------------------
(* The set a Python set object iterates in: repr(set(x)).                  *)

\* CPython's set_add_entry on a table of 8 slots (no linear probing below
\* 9 slots): slot hash & 7, then i = (5i + 1 + perturb) & 7 with perturb
\* shifted right by 5 bits before every probe.
RECURSIVE Probe(_, _, _)
Probe(table, i, perturb) ==
    IF table[i] = "" THEN i
    ELSE LET p == perturb \div 32 IN Probe(table, (5 * i + 1 + p) % 8, p)

RECURSIVE SetTable(_, _)
SetTable(tags, hash) ==
    IF tags = <<>> THEN [i \in 0..7 |-> ""]
    ELSE LET t == SetTable(SubSeq(tags, 1, Len(tags) - 1), hash)
             x == tags[Len(tags)]
         IN IF x \in Range(t) THEN t
            ELSE [t EXCEPT ![Probe(t, hash[x] % 8, hash[x])] = x]

\* A set is iterated, and printed by repr, in slot order.
RECURSIVE SlotOrder(_, _)
SlotOrder(table, i) ==
    IF i > 7 THEN <<>>
    ELSE (IF table[i] = "" THEN <<>> ELSE <<table[i]>>) \o SlotOrder(table, i + 1)

SetRepr(tags, hash) == SlotOrder(SetTable(tags, hash), 0)

-----------------------------------------------------------------------------
(* The HEAD section and its parser.                                        *)

\* A HEAD line is [type, cols]: type is the <TYPE> tag of its first field,
\* cols[1] the text that follows the tag in the first field, cols[k] the
\* text of the k-th field.
NoMatch == "<nomatch>"

\* The NAME group of PARSER_PATTERN on a field text: an optional {FLAGS}
\* wrapper is dropped, a text that is empty or holds a character outside
\* \w and space does not match.
PatternName(text) ==
    CASE text = "" -> NoMatch
      [] text = "NA-ME" -> NoMatch
      [] text = "{m}GENRE" -> "GENRE"
      [] OTHER -> text

\* One column of one HEAD line; st = [kb, col, name, ok].
HeadStep(st, type, col_num, text) ==
    LET first == col_num = 0
        \* PARSER_FIRST makes the whole pattern optional: "<T>" alone matches
        \* with NAME = None; "<T>" followed by an unparsable text does not match
        \* and splitted.group raises.
        crash == first /\ text # "" /\ PatternName(text) = NoMatch
        matched == IF first THEN TRUE ELSE PatternName(text) # NoMatch
        name == IF first /\ text = "" THEN NoneKey ELSE PatternName(text)
        kb0 == IF first /\ type \notin DOMAIN st.kb THEN MapPut(st.kb, type, <<>>) ELSE st.kb
        kb1 == IF matched THEN [kb0 EXCEPT ![type] = DictSet(kb0[type], name, col_num)] ELSE kb0
        \* col_name keeps its previous value when the field did not match
        col_name == IF matched THEN name ELSE st.name
        clash == col_name = "TYPE" /\ st.col # NoneVal /\ st.col # col_num
        col1 == IF col_name = "TYPE" /\ st.col = NoneVal THEN col_num ELSE st.col
    IN IF ~st.ok \/ crash \/ clash THEN [st EXCEPT !.ok = FALSE]
       ELSE [kb |-> kb1, col |-> col1, name |-> col_name, ok |-> TRUE]

RECURSIVE HeadLine(_, _, _)
HeadLine(st, line, n) ==
    IF n = 0 THEN st
    ELSE HeadStep(HeadLine(st, line, n - 1), line.type, n - 1, line.cols[n])

RECURSIVE HeadLines(_, _)
HeadLines(h, n) ==
    IF n = 0 THEN [kb |-> EmptyMap, col |-> NoneVal, name |-> NoneKey, ok |-> TRUE]
    ELSE HeadLine(HeadLines(h, n - 1), h[n], Len(h[n].cols))

\* getDictHeadKB: (headKB, ent_type_col), or ok = FALSE when it raises.
getDictHeadKB(h) == HeadLines(h, Len(h))

\* sum([1 for attr in self.headKB[t] if attr is not None])
BlockWidth(kb, t) == Cardinality({i \in DOMAIN kb[t] : kb[t][i][1] # NoneKey})

-----------------------------------------------------------------------------
(* The KB files the model is run on.                                       *)

GenericLine == [type |-> GENERIC, cols |-> <<"TYPE", "DESCRIPTION">>]
PersonLine == [type |-> "PERSON", cols |-> <<"BIRTHYEAR">>]
ArtistLine == [type |-> "ARTIST", cols |-> <<"{m}GENRE">>]
StatsLine == [type |-> STATS, cols |-> stats_names]

HeadPlain == <<GenericLine, PersonLine, ArtistLine, StatsLine>>
HeadScored == <<GenericLine, PersonLine, ArtistLine, [type |-> STATS, cols |-> all_stats]>>
HeadNoStats == <<GenericLine, PersonLine, ArtistLine>>
HeadPartial == <<GenericLine, PersonLine, ArtistLine,
                 [type |-> STATS, cols |-> <<"WIKI BACKLINKS", "WIKI PRIMARY SENSE">>]>>
\* a generic block whose third field registers no name
HeadGap == <<[type |-> GENERIC, cols |-> <<"TYPE", "DESCRIPTION", "NA-ME">>],
             PersonLine, ArtistLine, StatsLine>>
\* a type block that shares an attribute name with the __stats__ block
HeadShared == <<GenericLine, [type |-> "PERSON", cols |-> <<"BIRTHYEAR", "WIKI HITS">>],
                ArtistLine, StatsLine>>
\* TYPE at two different offsets: rejected by the constructor
HeadClash == <<GenericLine, [type |-> "PERSON", cols |-> <<"BIRTHYEAR", "TYPE">>]>>

Heads == {HeadPlain, HeadScored, HeadNoStats, HeadPartial, HeadGap, HeadShared, HeadClash}

HeadTypes(h) == {h[i].type : i \in DOMAIN h}
HeadLineOf(h, t) == h[CHOOSE i \in DOMAIN h : h[i].type = t]

\* An entity as the KB producer has it: declared type tags, description,
\* the value of every other attribute, the three statistics, the number of
\* trailing fields its line lacks on disk and of surplus trailing fields.
T(s) == <<s>>
Entities == <<
    [ty |-> <<"PERSON">>, desc |-> <<"a", "b", "c">>, by |-> <<"1", "9", "0", "0">>,
     st |-> <<T("8"), T("4"), T("1")>>, cut |-> 0, extra |-> 0],
    [ty |-> <<"PERSON">>, desc |-> <<>>, by |-> <<>>,
     st |-> <<T("2"), T("1"), T("0")>>, cut |-> 0, extra |-> 0],
    [ty |-> <<"PERSON">>, desc |-> <<>>, by |-> <<>>,
     st |-> <<<<>>, <<>>, <<>>>>, cut |-> 0, extra |-> 0],
    [ty |-> <<"PERSON">>, desc |-> <<>>, by |-> <<>>,
     st |-> <<T("4"), <<"N", "F">>, T("1")>>, cut |-> 0, extra |-> 0],
    [ty |-> <<"PERSON", "+", "ARTIST">>, desc |-> <<"a", "b">>, by |-> T("x"),
     st |-> <<T("1"), T("4"), T("1")>>, cut |-> 0, extra |-> 0],
    [ty |-> <<"ARTIST", "+", "PERSON">>, desc |-> <<"a", "b", "c">>, by |-> <<>>,
     st |-> <<T("8"), <<>>, T("0")>>, cut |-> 0, extra |-> 0],
    [ty |-> <<"PERSON">>, desc |-> <<"a", "b", "c">>, by |-> <<"1", "9", "0", "0">>,
     st |-> <<T("1"), T("1"), T("1")>>, cut |-> 4, extra |-> 0],
    [ty |-> <<"PERSON">>, desc |-> <<"a">>, by |-> <<"1", "9", "0", "0">>,
     st |-> <<T("1"), T("0"), T("1")>>, cut |-> 0, extra |-> 4]>>

\* The value the producer writes under a HEAD field of block t.
FieldValue(e, t, text) ==
    CASE text = "TYPE" -> e.ty
      [] text = "DESCRIPTION" -> e.desc
      [] t = STATS /\ text = "WIKI BACKLINKS" -> e.st[1]
      [] t = STATS /\ text = "WIKI HITS" -> e.st[2]
      [] t = STATS /\ text = "WIKI PRIMARY SENSE" -> e.st[3]
      [] t = STATS -> <<"5", "0", ".", "0", "0">>
      [] OTHER -> e.by

\* The blocks of an entity's line, in layout order (spec section 3).
LayoutTypes(h, e) ==
    LET declared == OrderedSet(Split(e.ty, type_delim))
        g == IF GENERIC \in HeadTypes(h) THEN OrderedUnion(<<GENERIC>>, declared) ELSE declared
    IN IF STATS \in HeadTypes(h) THEN OrderedUnion(g, <<STATS>>) ELSE g

\* The line of an entity on disk: one field per HEAD field of every block.
DiskRow(h, e) ==
    LET ts == LayoutTypes(h, e)
        full == Flatten([i \in DOMAIN ts |->
                    LET l == HeadLineOf(h, ts[i])
                    IN [k \in DOMAIN l.cols |-> FieldValue(e, ts[i], l.cols[k])]])
        kept == SubSeq(full, 1, Max(Len(full) - e.cut, 1))
    IN kept \o Repeat(T("x"), e.extra)

\* The DATA sections: up to MaxRows entities, in the order of Entities.
DataFiles(h) ==
    {[i \in DOMAIN ix |-> DiskRow(h, Entities[ix[i]])] :
        ix \in {s \in UNION {[1..n -> DOMAIN Entities] : n \in 1..MaxRows} :
                   \A i \in 1..(Len(s) - 1) : s[i] <= s[i + 1]}}

\* hash() of the type tags under two hash seeds: without a collision, and
\* with PERSON and ARTIST in the same slot of an 8-slot table.
HashSeeds == {
    (GENERIC :> 3) @@ ("PERSON" :> 1) @@ ("ARTIST" :> 2) @@ (STATS :> 4),
    (GENERIC :> 3) @@ ("PERSON" :> 1) @@ ("ARTIST" :> 9) @@ (STATS :> 4)}

NoRes == [op |-> "", line |-> 0, name |-> "", hint |-> "", ret |-> NoneVal, val |-> <<>>, exc |-> ""]
NoOut == [written |-> FALSE, head |-> <<>>, data |-> <<>>]

\* The state after KnowledgeBase(path_to_kb): __init__ has parsed the HEAD.
Init ==
    /\ head \in {h \in Heads : getDictHeadKB(h).ok}
    /\ disk \in DataFiles(head)
    /\ tagHash \in HashSeeds
    /\ headKB = getDictHeadKB(head).kb
    /\ ent_type_col = getDictHeadKB(head).col
    /\ kb_loaded = FALSE
    /\ lines = <<>>
    /\ metrics = EmptyMap
    /\ metric_index = EmptyMap
    /\ pc = "idle"
    /\ line_num = 0
    /\ save_flag = FALSE
    /\ out = NoOut
    /\ res = NoRes

-----------------------------------------------------------------------------
(* Results of calls that may raise.                                        *)

Ok(v) == [exc |-> "", val |-> v]
Raise(e) == [exc |-> e, val |-> NoneVal]

\* r, then f on its value unless r is an exception.
Then(r, f(_)) == IF r.exc # "" THEN r ELSE f(r.val)

\* xs.append(x) where evaluating xs, then x, may raise.
AppendTo(xs, x) ==
    IF xs.exc # "" THEN xs ELSE IF x.exc # "" THEN x ELSE Ok(Append(xs.val, x.val))

-----------------------------------------------------------------------------
(* Row loader: getKBLines(KB_PART.DATA), load_kb, check_or_load_kb.        *)

\* "__generic__" is put in front of a type-set that lacks it.
WithGeneric(kb, declared) ==
    IF GENERIC \in DOMAIN kb /\ GENERIC \notin Range(declared)
    THEN OrderedUnion(<<GENERIC>>, declared) ELSE declared

\* "__stats__" is put behind a type-set that lacks it.
WithStats(kb, types) ==
    IF STATS \in DOMAIN kb /\ STATS \notin Range(types)
    THEN OrderedUnion(types, <<STATS>>) ELSE types

\* PadRow that appends the reserve after clamping the shortfall at 0.
PadRowReserved(kb, row, ent_type_set) ==
    IF \E i \in DOMAIN ent_type_set : ent_type_set[i] \notin DOMAIN kb
    THEN Raise("KeyError")
    ELSE Ok(row \o Repeat(<<>>,
              Max(SumSeq([i \in DOMAIN ent_type_set |-> BlockWidth(kb, ent_type_set[i])])
                  - Len(row), 0) + Len(all_stats)))

\* line[:-1].split("\t") + ['' for _ in range(min_line_cols - line_cols + len(all_stats))]
PadRow(kb, row, ent_type_set) ==
    IF \E i \in DOMAIN ent_type_set : ent_type_set[i] \notin DOMAIN kb
    THEN Raise("KeyError")
    ELSE Ok(row \o Repeat(<<>>,
              Max(SumSeq([i \in DOMAIN ent_type_set |-> BlockWidth(kb, ent_type_set[i])])
                  - Len(row) + Len(all_stats), 0)))

\* One DATA line.  line.split("\t") keeps the newline in the last field, so
\* a TYPE read from the last field of a line carries it.
LoadRow(kb, etc, row) ==
    IF etc + 1 > Len(row) THEN Raise("IndexError")
    ELSE PadRow(kb, row,
           WithGeneric(kb, OrderedSet(Split(
               IF etc + 1 = Len(row) THEN Append(row[etc + 1], "\n") ELSE row[etc + 1],
               type_delim))))

RECURSIVE getKBLines(_, _, _, _)
getKBLines(kb, etc, data, n) ==
    IF n = 0 THEN Ok(<<>>)
    ELSE AppendTo(getKBLines(kb, etc, data, n - 1), LoadRow(kb, etc, data[n]))

\* check_or_load_kb: the rows after the call, or the exception load_kb raises
\* (self.lines and self._kb_loaded are then left as they were).
check_or_load_kb ==
    IF kb_loaded THEN Ok(lines) ELSE getKBLines(headKB, ent_type_col, disk, Len(disk))

-----------------------------------------------------------------------------
(* Column resolver.                                                        *)

\* get_field on a materialized row (0-based column).
get_field(cols, column) ==
    IF column + 1 > Len(cols) THEN Raise("RuntimeError: no column") ELSE Ok(cols[column + 1])

get_ent_type(kb, etc, cols) ==
    Then(get_field(cols, etc), LAMBDA f :
         Ok(WithStats(kb, WithGeneric(kb, OrderedSet(Split(f, type_delim))))))

\* The loop of get_col_for over the type-set, from its k-th element with the
\* running offset col.
RECURSIVE ColWalk(_, _, _, _, _)
ColWalk(kb, types, k, col, col_name) ==
    IF k > Len(types) THEN Raise("RuntimeError: column name does not exist")
    ELSE IF types[k] \notin DOMAIN kb THEN Raise("KeyError")
    ELSE IF DictGet(kb[types[k]], col_name) # NoneVal
         THEN Ok(col + DictGet(kb[types[k]], col_name))
    ELSE ColWalk(kb, types, k + 1, col + BlockWidth(kb, types[k]), col_name)

\* get_col_for with a default: an unknown name resolves to column 0.
get_col_for_default(kb, etc, cols, col_name, col_name_type) ==
    Then(get_ent_type(kb, etc, cols), LAMBDA ts :
         IF \A k \in DOMAIN ts : ts[k] \in DOMAIN kb /\ ~DictHas(kb[ts[k]], col_name)
         THEN Ok(0) ELSE ColWalk(kb, ts, 1, 0, col_name))

\* col_name_type is a parameter the body never reads.
get_col_for(kb, etc, cols, col_name, col_name_type) ==
    Then(get_ent_type(kb, etc, cols), LAMBDA ts : ColWalk(kb, ts, 1, 0, col_name))

Zero == <<"0">>
NF == <<"N", "F">>

get_data_for(kb, etc, cols, col_name, col_name_type) ==
    Then(get_col_for(kb, etc, cols, col_name, col_name_type), LAMBDA c :
    Then(get_field(cols, c), LAMBDA v :
         IF v = <<>> \/ v = NF THEN Ok(Zero) ELSE Ok(v)))

-----------------------------------------------------------------------------
(* Observations of one row.                                                *)

\* [self.get_col_for(columns, colname, "__stats__") for colname in names[:n]]:
\* the columns, or the first exception.
RECURSIVE StatsCols(_, _, _, _, _)
StatsCols(kb, etc, cols, names, n) ==
    IF n = 0 THEN Ok(<<>>)
    ELSE AppendTo(StatsCols(kb, etc, cols, names, n - 1),
                  get_col_for(kb, etc, cols, names[n], STATS))

\* nonempty_columns that counts the statistic and metric columns too.
nonempty_columns_all(kb, etc, cols) ==
    Ok(Cardinality({col \in 0..(Len(cols) - 1) : cols[col + 1] # <<>>}))

\* len(list(filter(lambda col: col not in metrics_cols and columns[col], ...)))
nonempty_columns(kb, etc, cols) ==
    Then(IF STATS \in DOMAIN kb
         THEN StatsCols(kb, etc, cols, DictKeys(kb[STATS]), Len(kb[STATS]))
         ELSE Ok(<<>>),
         LAMBDA metrics_cols :
            Ok(Cardinality({col \in 0..(Len(cols) - 1) :
                              col \notin Range(metrics_cols) /\ cols[col + 1] # <<>>})))

description_length(kb, etc, cols) ==
    Then(get_data_for(kb, etc, cols, "DESCRIPTION", ""), LAMBDA v : Ok(StrLen(v)))

column_rename(column_name) ==
    CASE column_name = "backlinks" -> "WIKI BACKLINKS"
      [] column_name = "hits" -> "WIKI HITS"
      [] column_name = "ps" -> "WIKI PRIMARY SENSE"
      [] column_name = "link" -> "WIKIPEDIA URL"
      [] OTHER -> column_name

get_wiki_value(kb, etc, cols, column_name) ==
    get_data_for(kb, etc, cols, column_rename(column_name), "")

\* int(str)
IntOf(v) == IF IsInt(v) THEN Ok(ParseInt(v)) ELSE Raise("ValueError")

\* repr(set(ent_type_set))
ent_type_set_index(kb, etc, hash, cols) ==
    Then(get_ent_type(kb, etc, cols), LAMBDA ts : Ok(SetRepr(ts, hash)))

-----------------------------------------------------------------------------
(* Pass 1 of insert_metrics: collect.  The results of this section carry   *)
(* self.metrics in val also when exc is set.                               *)

\* d.setdefault(k, default) on a partial map: the map after the call.
SetDefault(d, k, default) == IF k \in DOMAIN d THEN d ELSE MapPut(d, k, default)

\* self.metrics[key].setdefault(metric, []).append(<obs>): the list exists
\* before <obs> is evaluated, so it stays when <obs> raises.
AddObs(m, key, metric, obs) ==
    IF obs.exc # ""
    THEN [exc |-> obs.exc, val |-> [m EXCEPT ![key] = SetDefault(m[key], metric, <<>>)]]
    ELSE [exc |-> "",
          val |-> [m EXCEPT ![key] = MapPut(m[key], metric,
                      Append(SetDefault(m[key], metric, <<>>)[metric], obs.val))]]

AndObs(prev, key, metric, obs) ==
    IF prev.exc # "" THEN prev ELSE AddObs(prev.val, key, metric, obs)

\* int(self.get_wiki_value(line_num, column_name))
WikiObs(kb, etc, cols, column_name) ==
    Then(get_wiki_value(kb, etc, cols, column_name), LAMBDA v : IntOf(v))

\* if self.get_wiki_value(line_num, 'backlinks'): <three appends>
WikiPart(prev, bl, kb, etc, cols, key) ==
    IF prev.exc # "" THEN prev
    ELSE IF bl.exc # "" THEN [exc |-> bl.exc, val |-> prev.val]
    ELSE IF bl.val = <<>> THEN prev
    ELSE AndObs(AndObs(AddObs(prev.val, key, "wiki_backlinks",
                              WikiObs(kb, etc, cols, "backlinks")),
                       key, "wiki_hits", WikiObs(kb, etc, cols, "hits")),
                key, "wiki_ps", WikiObs(kb, etc, cols, "ps"))

CollectKey(kb, etc, m, cols, key) ==
    WikiPart(AndObs(AddObs(SetDefault(m, key, EmptyMap), key, "columns_number",
                           nonempty_columns(kb, etc, cols)),
                    key, "description_length", description_length(kb, etc, cols)),
             get_wiki_value(kb, etc, cols, "backlinks"), kb, etc, cols, key)

\* r, then f on its value; an exception leaves state s as it is.
KeepThen(s, r, f(_)) == IF r.exc # "" THEN [exc |-> r.exc, val |-> s] ELSE f(r.val)

\* The body of the first loop for one row: self.metrics after it, with the
\* exception that ended it if any.
CollectRow(kb, etc, hash, m, cols) ==
    KeepThen(m, ent_type_set_index(kb, etc, hash, cols),
             LAMBDA key : CollectKey(kb, etc, m, cols, key))

-----------------------------------------------------------------------------
(* Passes 2 and 3: sort and index.                                         *)

SortAll(m) ==
    [i \in DOMAIN m |-> [j \in DOMAIN m[i] |-> SortSeq(m[i][j], LAMBDA a, b : a < b)]]

CappedMetrics == {"wiki_backlinks", "wiki_hits"}

\* Percentile without the 25% cap of wiki_backlinks and wiki_hits.
PercentileUncapped(j, v, last) ==
    IF last = 0 THEN RatOne ELSE RatMin(Rat(v, last), RatOne)

\* Percentile without min(normalized_value, 1.0).
PercentileUnclamped(j, v, last) ==
    IF last = 0 THEN RatOne ELSE Rat((IF j \in CappedMetrics THEN 4 ELSE 1) * v, last)

\* The percentile stored for value v of metric j whose sorted list ends
\* with last: max_value is last, or 0.25 * last for a capped metric; a
\* max_value of 0 gives 1.0.
Percentile(j, v, last) ==
    IF last = 0 THEN RatOne
    ELSE RatMin(Rat((IF j \in CappedMetrics THEN 4 ELSE 1) * v, last), RatOne)

\* The third loop: values already indexed keep their percentile.
IndexAll(m, idx) ==
    LET old(i, j) == IF i \in DOMAIN idx /\ j \in DOMAIN idx[i] THEN idx[i][j] ELSE EmptyMap
        filled(i) == {j \in DOMAIN m[i] : m[i][j] # <<>>}
              \cup (IF i \in DOMAIN idx THEN DOMAIN idx[i] ELSE {})
        list(i, j) == IF i \in DOMAIN m /\ j \in DOMAIN m[i] THEN m[i][j] ELSE <<>>
    IN [i \in {x \in DOMAIN m : filled(x) # {}} \cup DOMAIN idx |->
         [j \in filled(i) |->
           [v \in Range(list(i, j)) \cup DOMAIN old(i, j) |->
              IF v \in DOMAIN old(i, j) THEN old(i, j)[v]
              ELSE Percentile(j, v, list(i, j)[Len(list(i, j))])]]]

-----------------------------------------------------------------------------
(* Score computer.                                                         *)

\* The raw value metric_percentile looks up.
MetricValue(kb, etc, cols, metric) ==
    CASE metric = "description_length" -> description_length(kb, etc, cols)
      [] metric = "columns_number" -> nonempty_columns(kb, etc, cols)
      [] metric = "wiki_backlinks" -> WikiObs(kb, etc, cols, "backlinks")
      [] metric = "wiki_hits" -> WikiObs(kb, etc, cols, "hits")
      [] metric = "wiki_ps" -> WikiObs(kb, etc, cols, "ps")

\* self.metric_index[ent_type_set_index][metric][value]
IndexLookup(idx, metric, key, value) ==
    IF key.exc # "" THEN key
    ELSE IF value.exc # "" THEN value
    ELSE IF key.val \in DOMAIN idx /\ metric \in DOMAIN idx[key.val]
            /\ value.val \in DOMAIN idx[key.val][metric]
         THEN Ok(idx[key.val][metric][value.val])
    ELSE Raise("KeyError")

metric_percentile(kb, etc, hash, idx, cols, metric) ==
    IndexLookup(idx, metric, ent_type_set_index(kb, etc, hash, cols),
                MetricValue(kb, etc, cols, metric))

RECURSIVE Prod(_)
Prod(q) == IF q = <<>> THEN 1 ELSE Head(q) * Prod(Tail(q))

\* numpy.average(values, weights) on rationals.
WeightedAverage(values, weights) ==
    Rat(SumSeq([i \in DOMAIN values |->
                  weights[i] * values[i][1]
                  * (Prod([k \in DOMAIN values |-> values[k][2]]) \div values[i][2])]),
        Prod([k \in DOMAIN values |-> values[k][2]]) * SumSeq(weights))

RatTimes(c, p) == Rat(c * p[1], p[2])

\* round(n / d) with ties to even, n >= 0, d > 0.
RoundHalfEven(n, d) ==
    IF 2 * (n % d) < d THEN n \div d
    ELSE IF 2 * (n % d) > d THEN (n \div d) + 1
    ELSE IF (n \div d) % 2 = 0 THEN n \div d ELSE (n \div d) + 1

\* x to two decimals, in hundredths.
Hundredths(p) == RoundHalfEven(100 * p[1], p[2])

\* The text of h hundredths: digits, ".", two digits.
HundredthsStr(h) ==
    IntStr(h \div 100) \o <<".", Digits[((h \div 10) % 10) + 1], Digits[(h % 10) + 1]>>

\* "%.2f" % x
Fmt2(p) == HundredthsStr(Hundredths(p))

\* columns[self.get_col_for(columns, name)] = text
SetCol(kb, etc, cols, name, text) ==
    Then(get_col_for(kb, etc, cols, name, ""), LAMBDA c :
         IF c + 1 > Len(cols) THEN Raise("IndexError")
         ELSE Ok([cols EXCEPT ![c + 1] = text]))

\* SCORE WIKI of a row, before rounding.
ScoreWiki(kb, etc, hash, idx, cols) ==
    Then(get_wiki_value(kb, etc, cols, "backlinks"), LAMBDA bl :
      IF bl = <<>> THEN Ok(RatZero)
      ELSE
      Then(metric_percentile(kb, etc, hash, idx, cols, "wiki_backlinks"), LAMBDA wb :
      Then(metric_percentile(kb, etc, hash, idx, cols, "wiki_hits"), LAMBDA wh :
      Then(metric_percentile(kb, etc, hash, idx, cols, "wiki_ps"), LAMBDA wp :
        Ok(RatTimes(100, WeightedAverage(<<wb, wh, wp>>, <<5, 5, 1>>)))))))

\* SCORE METRICS of a row, before rounding.
ScoreMetrics(kb, etc, hash, idx, cols) ==
    Then(metric_percentile(kb, etc, hash, idx, cols, "description_length"), LAMBDA dl :
    Then(metric_percentile(kb, etc, hash, idx, cols, "columns_number"), LAMBDA cn :
      Ok(RatTimes(100, WeightedAverage(<<dl, cn>>, <<1, 1>>)))))

\* numpy.average([score_wiki, score_metrics]) with the weights left out.
ConfidenceUnweighted(score_wiki, score_metrics) ==
    WeightedAverage(<<score_wiki, score_metrics>>, <<1, 1>>)

\* numpy.average([score_wiki, score_metrics], weights=[5, 1])
Confidence(score_wiki, score_metrics) ==
    WeightedAverage(<<score_wiki, score_metrics>>, <<5, 1>>)

\* The body of the last loop for one row: the row after it (the list is
\* modified in place, so fields written before an exception stay written).
ScoreRow(kb, etc, hash, idx, cols) ==
    KeepThen(cols, ScoreWiki(kb, etc, hash, idx, cols), LAMBDA sw :
    KeepThen(cols, SetCol(kb, etc, cols, "SCORE WIKI", Fmt2(sw)), LAMBDA cols1 :
    KeepThen(cols1, ScoreMetrics(kb, etc, hash, idx, cols1), LAMBDA sm :
    KeepThen(cols1, SetCol(kb, etc, cols1, "SCORE METRICS", Fmt2(sm)), LAMBDA cols2 :
    KeepThen(cols2, SetCol(kb, etc, cols2, "CONFIDENCE", Fmt2(Confidence(sw, sm))),
             LAMBDA cols3 : Ok(cols3))))))

-----------------------------------------------------------------------------
(* Serializer.                                                             *)

\* "\t".join(fields) as the text of one line.
RECURSIVE JoinTab(_)
JoinTab(row) ==
    IF row = <<>> THEN <<>>
    ELSE IF Len(row) = 1 THEN row[1]
    ELSE row[1] \o <<"\t">> \o JoinTab(Tail(row))

\* "<__stats__>" + "\t".join(self.headKB["__stats__"].keys())
StatsHeadLine(kb) ==
    IF STATS \notin DOMAIN kb THEN Raise("KeyError")
    ELSE IF NoneKey \in Range(DictKeys(kb[STATS])) THEN Raise("TypeError")
    ELSE Ok([type |-> STATS, cols |-> DictKeys(kb[STATS])])

\* The file so far [exc, val], and the next line written to it.
WriteLine(file, line) ==
    IF file.exc # "" THEN file
    ELSE IF line.exc # "" THEN [exc |-> line.exc, val |-> file.val]
    ELSE Ok(Append(file.val, line.val))

\* The HEAD lines save_changes writes: the __stats__ line is rewritten from
\* headKB, the others are copied.
RECURSIVE SaveHead(_, _, _)
SaveHead(kb, h, n) ==
    IF n = 0 THEN Ok(<<>>)
    ELSE WriteLine(SaveHead(kb, h, n - 1),
                   IF h[n].type = STATS THEN StatsHeadLine(kb) ELSE Ok(h[n]))

\* if not stats_added: a __stats__ line is written after the HEAD.
SaveStats(kb, h, file) ==
    IF \E i \in DOMAIN h : h[i].type = STATS THEN file ELSE WriteLine(file, StatsHeadLine(kb))

\* for line in self.lines + [""]: out_file.write("\t".join(...))
SaveData(ls, hd) ==
    [written |-> TRUE, head |-> hd.val, exc |-> hd.exc,
     data |-> IF hd.exc # "" THEN <<>> ELSE [i \in DOMAIN ls |-> JoinTab(ls[i])] \o <<<<>>>>]

\* The file save_changes leaves: it is truncated when opened, and holds what
\* was written before an exception.
save_changes(kb, h, ls) == SaveData(ls, SaveStats(kb, h, SaveHead(kb, h, Len(h))))

-----------------------------------------------------------------------------
(* insert_metrics and save_changes as calls.                               *)

\* check_all_stats_present that never finds the six names.
check_all_stats_absent(kb) ==
    IF STATS \notin DOMAIN kb THEN Raise("KeyError") ELSE Ok(FALSE)

check_all_stats_present(kb) ==
    IF STATS \notin DOMAIN kb THEN Raise("KeyError")
    ELSE Ok(\A i \in DOMAIN all_stats : DictHas(kb[STATS], all_stats[i]))

RECURSIVE AddMetricNames(_, _)
AddMetricNames(d, n) ==
    IF n = 0 THEN d
    ELSE IF DictHas(AddMetricNames(d, n - 1), metrics_names[n])
         THEN AddMetricNames(d, n - 1)
         ELSE DictSet(AddMetricNames(d, n - 1), metrics_names[n],
                      Len(AddMetricNames(d, n - 1)))

\* check_add_kb_stats: [ok, kb], with the metric names added to the
\* __stats__ block when the three statistics are declared.
check_add_kb_stats(kb) ==
    IF STATS \notin DOMAIN kb THEN [ok |-> FALSE, kb |-> kb]
    ELSE IF \E i \in DOMAIN stats_names : ~DictHas(kb[STATS], stats_names[i])
         THEN [ok |-> FALSE, kb |-> kb]
    ELSE [ok |-> TRUE,
          kb |-> [kb EXCEPT ![STATS] = AddMetricNames(kb[STATS], Len(metrics_names))]]

\* A query hands its value to the caller in res; the caller takes it (Return)
\* before its next call.
QueryOps == {"get_col_for", "get_data_for"}
Idle == pc = "idle" /\ res.op \notin QueryOps

Called(op, note, exc) == [NoRes EXCEPT !.op = op, !.name = note, !.exc = exc]

\* insert_metrics returns, or raises, before its first loop.
InsertEnds(note, exc) ==
    /\ res' = Called("insert_metrics", note, exc)
    /\ UNCHANGED <<headKB, pc, line_num, save_flag>>

\* insert_metrics after check_or_load_kb.
InsertChecks(sc, present, added) ==
    IF present.exc # "" THEN InsertEnds("", present.exc)
    ELSE IF present.val THEN InsertEnds("all stats and metrics already present", "")
    ELSE IF ~added.ok THEN InsertEnds("missing neccessary stats", "")
    ELSE /\ res' = Called("insert_metrics", "", "")
         /\ headKB' = added.kb
         /\ pc' = "collect"
         /\ line_num' = 1
         /\ save_flag' = sc

InsertLoaded(sc, l) ==
    IF l.exc # ""
    THEN /\ InsertEnds("", l.exc)
         /\ UNCHANGED <<lines, kb_loaded>>
    ELSE /\ lines' = l.val
         /\ kb_loaded' = TRUE
         /\ InsertChecks(sc, check_all_stats_present(headKB), check_add_kb_stats(headKB))

\* insert_metrics up to its first loop.
InsertMetrics(sc) ==
    /\ Idle
    /\ InsertLoaded(sc, check_or_load_kb)
    /\ UNCHANGED <<head, disk, tagHash, ent_type_col, metrics, metric_index, out>>

\* An exception leaves insert_metrics.
Abort(exc) ==
    /\ pc' = "idle"
    /\ line_num' = 0
    /\ save_flag' = FALSE
    /\ res' = Called("insert_metrics", "", exc)

Collected(r) ==
    /\ metrics' = r.val
    /\ IF r.exc # "" THEN Abort(r.exc)
       ELSE /\ IF line_num = Len(lines)
               THEN pc' = "sort" /\ line_num' = 0
               ELSE pc' = pc /\ line_num' = line_num + 1
            /\ UNCHANGED <<save_flag, res>>

Collect ==
    /\ pc = "collect"
    /\ Collected(CollectRow(headKB, ent_type_col, tagHash, metrics, lines[line_num]))
    /\ UNCHANGED <<head, disk, tagHash, headKB, ent_type_col, kb_loaded, lines, metric_index, out>>

Sort ==
    /\ pc = "sort"
    /\ metrics' = SortAll(metrics)
    /\ pc' = "index"
    /\ UNCHANGED <<head, disk, tagHash, headKB, ent_type_col, kb_loaded, lines, metric_index,
                   line_num, save_flag, out, res>>

Index ==
    /\ pc = "index"
    /\ metric_index' = IndexAll(metrics, metric_index)
    /\ pc' = "score"
    /\ line_num' = 1
    /\ UNCHANGED <<head, disk, tagHash, headKB, ent_type_col, kb_loaded, lines, metrics,
                   save_flag, out, res>>

Scored(r) ==
    /\ lines' = [lines EXCEPT ![line_num] = r.val]
    /\ IF r.exc # "" THEN Abort(r.exc)
       ELSE IF line_num < Len(lines)
       THEN /\ line_num' = line_num + 1
            /\ UNCHANGED <<pc, save_flag, res>>
       ELSE /\ line_num' = 0
            /\ pc' = IF save_flag THEN "save" ELSE "idle"
            /\ UNCHANGED <<save_flag, res>>

Score ==
    /\ pc = "score"
    /\ Scored(ScoreRow(headKB, ent_type_col, tagHash, metric_index, lines[line_num]))
    /\ UNCHANGED <<head, disk, tagHash, headKB, ent_type_col, kb_loaded, metrics,
                   metric_index, out>>

Saved(op, f) ==
    /\ out' = [written |-> f.written, head |-> f.head, data |-> f.data]
    /\ res' = Called(op, "", f.exc)

\* The save_changes() call that ends insert_metrics(save_changes=True).
Save ==
    /\ pc = "save"
    /\ Saved("insert_metrics", save_changes(headKB, head, lines))
    /\ pc' = "idle"
    /\ UNCHANGED <<head, disk, tagHash, headKB, ent_type_col, kb_loaded, lines, metrics,
                   metric_index, line_num, save_flag>>

\* save_changes called by the user.
SaveChanges ==
    /\ Idle
    /\ Saved("save_changes", save_changes(headKB, head, lines))
    /\ UNCHANGED <<head, disk, tagHash, headKB, ent_type_col, kb_loaded, lines, metrics,
                   metric_index, pc, line_num, save_flag>>

-----------------------------------------------------------------------------
(* load_kb and the queries.                                                *)

QueryNames == {"BIRTHYEAR", "GENRE", "WIKI HITS", "NOPE"}
QueryHints == {"", STATS}

\* The outcome of a call on row n of the loaded rows ls.
Answer(op, n, name, hint, r) ==
    [op |-> op, line |-> n, name |-> name, hint |-> hint,
     ret |-> IF op = "get_col_for" THEN r.val ELSE NoneVal,
     val |-> IF op = "get_data_for" /\ r.exc = "" THEN r.val ELSE <<>>,
     exc |-> r.exc]

\* A call that takes a 1-based line number loads the KB first.
Lazy(op, n, name, hint, l, call(_)) ==
    IF l.exc # ""
    THEN /\ res' = [Called(op, name, l.exc) EXCEPT !.line = n, !.hint = hint]
         /\ UNCHANGED <<lines, kb_loaded>>
    ELSE /\ lines' = l.val
         /\ kb_loaded' = TRUE
         /\ res' = Answer(op, n, name, hint,
                          IF n > Len(l.val) THEN Raise("RuntimeError: no line")
                          ELSE call(l.val[n]))

Loaded(l) ==
    /\ res' = Called("load_kb", "", l.exc)
    /\ IF l.exc = "" THEN lines' = l.val /\ kb_loaded' = TRUE
       ELSE UNCHANGED <<lines, kb_loaded>>

load_kb ==
    /\ Idle /\ ~kb_loaded
    /\ Loaded(getKBLines(headKB, ent_type_col, disk, Len(disk)))
    /\ UNCHANGED <<head, disk, tagHash, headKB, ent_type_col, metrics, metric_index,
                   pc, line_num, save_flag, out>>

GetColFor(n, name, hint) ==
    /\ Idle
    /\ Lazy("get_col_for", n, name, hint, check_or_load_kb,
            LAMBDA cols : get_col_for(headKB, ent_type_col, cols, name, hint))
    /\ UNCHANGED <<head, disk, tagHash, headKB, ent_type_col, metrics, metric_index,
                   pc, line_num, save_flag, out>>

GetDataFor(n, name) ==
    /\ Idle
    /\ Lazy("get_data_for", n, name, "", check_or_load_kb,
            LAMBDA cols : get_data_for(headKB, ent_type_col, cols, name, ""))
    /\ UNCHANGED <<head, disk, tagHash, headKB, ent_type_col, metrics, metric_index,
                   pc, line_num, save_flag, out>>

Return ==
    /\ pc = "idle" /\ res.op \in QueryOps
    /\ res' = NoRes
    /\ UNCHANGED <<head, disk, tagHash, headKB, ent_type_col, kb_loaded, lines, metrics,
                   metric_index, pc, line_num, save_flag, out>>

Next ==
    \/ load_kb
    \/ Return
    \/ \E sc \in BOOLEAN : InsertMetrics(sc)
    \/ Collect
    \/ Sort
    \/ Index
    \/ Score
    \/ Save
    \/ SaveChanges
    \/ \E n \in 1..Len(disk), name \in QueryNames, hint \in QueryHints : GetColFor(n, name, hint)
    \/ \E n \in 1..Len(disk), name \in QueryNames : GetDataFor(n, name)

Spec == Init /\ [][Next]_vars

-----------------------------------------------------------------------------
(* Properties of the engine.                                               *)

\* insert_metrics has returned after its last loop.
Done == pc = "idle" /\ res.op = "insert_metrics" /\ res.exc = "" /\ res.name = ""

\* The text stored in the named field of a row the resolver can address.
Stored(cols, name) == cols[get_col_for(headKB, ent_type_col, cols, name, "").val + 1]

\* The statistics bucket of a row, and the tags of its TYPE field.
BucketOf(cols) == ent_type_set_index(headKB, ent_type_col, tagHash, cols).val
TagsOf(cols) == Range(Split(cols[ent_type_col + 1], type_delim))

\* The schema declares the three input statistic columns.
StatsDeclared ==
    /\ STATS \in DOMAIN headKB
    /\ \A i \in DOMAIN stats_names : DictHas(headKB[STATS], stats_names[i])

\* C1: on a loaded KB whose schema declares the three input statistics, an
\* insert_metrics call that follows an insert_metrics call is a no-op: it
\* starts no pass, changes no row, no schema column and no written file, and
\* what save_changes would write is the same before and after it.
C1_SecondInsertIsNoOp ==
    [][(/\ kb_loaded
        /\ res.op = "insert_metrics"
        /\ StatsDeclared
        /\ \E sc \in BOOLEAN : InsertMetrics(sc))
       => /\ pc' = "idle"
          /\ UNCHANGED <<lines, headKB, metrics, metric_index, out>>
          /\ save_changes(headKB', head', lines') = save_changes(headKB, head, lines)]_vars

\* A second insert_metrics has returned with its warning on a KB the first
\* call scored.
C1_Witness ==
    /\ head = HeadPlain
    /\ pc = "idle"
    /\ metric_index # EmptyMap
    /\ res.op = "insert_metrics"
    /\ res.name = "all stats and metrics already present"
    /\ \E n \in DOMAIN lines : Stored(lines[n], "CONFIDENCE") # <<>>

\* C2: once insert_metrics has collected, any two rows whose TYPE fields
\* list the same set of tags (in any order) have the same bucket key.
C2_BucketIgnoresTagOrder ==
    pc \in {"sort", "index", "score"} =>
        \A a, b \in DOMAIN lines :
            TagsOf(lines[a]) = TagsOf(lines[b]) => BucketOf(lines[a]) = BucketOf(lines[b])

\* Two rows with the same tags in a different order have been collected.
C2_Witness ==
    /\ pc = "sort"
    /\ \E a, b \in DOMAIN lines :
          /\ TagsOf(lines[a]) = TagsOf(lines[b])
          /\ lines[a][ent_type_col + 1] # lines[b][ent_type_col + 1]

\* C3: after insert_metrics, a row whose WIKI BACKLINKS field is empty has
\* SCORE WIKI 0.00, and every other row has 100 x the average of its three
\* wiki percentiles weighted 5, 5, 1, to two decimals.
C3_ScoreWikiZeroWithoutBacklinks ==
    Done =>
        \A n \in DOMAIN lines :
            Stored(lines[n], "SCORE WIKI") =
                IF Stored(lines[n], "WIKI BACKLINKS") = <<>>
                THEN <<"0", ".", "0", "0">>
                ELSE Fmt2(RatTimes(100, WeightedAverage(
                        <<metric_percentile(headKB, ent_type_col, tagHash, metric_index,
                                            lines[n], "wiki_backlinks").val,
                          metric_percentile(headKB, ent_type_col, tagHash, metric_index,
                                            lines[n], "wiki_hits").val,
                          metric_percentile(headKB, ent_type_col, tagHash, metric_index,
                                            lines[n], "wiki_ps").val>>,
                        <<5, 5, 1>>)))

\* A scored row without a backlinks value whose SCORE WIKI is not 0.00.
C3_Witness ==
    /\ Done
    /\ \E n \in DOMAIN lines :
          /\ Stored(lines[n], "WIKI BACKLINKS") = <<>>
          /\ Stored(lines[n], "SCORE WIKI") # <<"0", ".", "0", "0">>

\* The largest value observed for metric j in bucket i.
MaxObserved(i, j) ==
    CHOOSE m \in Range(metrics[i][j]) : \A v \in Range(metrics[i][j]) : v <= m

\* C4: in every percentile table, the maximum observed for a non-capped
\* metric maps to 1.0, and for wiki_backlinks and wiki_hits every observed
\* value of at least 25% of the maximum maps to 1.0.
C4_MaximumMapsToOne ==
    \A i \in DOMAIN metric_index : \A j \in DOMAIN metric_index[i] :
        IF j \in CappedMetrics
        THEN \A v \in Range(metrics[i][j]) :
                4 * v >= MaxObserved(i, j) => metric_index[i][j][v] = RatOne
        ELSE metric_index[i][j][MaxObserved(i, j)] = RatOne

\* A capped table in which a value below the maximum saturates.
C4_Witness ==
    \E i \in DOMAIN metric_index : \E j \in DOMAIN metric_index[i] \cap CappedMetrics :
        \E v \in DOMAIN metric_index[i][j] :
            /\ 0 < v /\ v < MaxObserved(i, j)
            /\ metric_index[i][j][v] = RatOne

\* C5: within one bucket and one metric the percentile table is
\* non-decreasing in the raw value, and every percentile lies in [0, 1].
C5_PercentileMonotone ==
    \A i \in DOMAIN metric_index : \A j \in DOMAIN metric_index[i] :
        \A v1, v2 \in DOMAIN metric_index[i][j] :
            /\ RatLeq(RatZero, metric_index[i][j][v1])
            /\ RatLeq(metric_index[i][j][v1], RatOne)
            /\ v1 <= v2 => RatLeq(metric_index[i][j][v1], metric_index[i][j][v2])

\* A table with two values whose percentiles differ.
C5_Witness ==
    \E i \in DOMAIN metric_index : \E j \in DOMAIN metric_index[i] :
        \E v1, v2 \in DOMAIN metric_index[i][j] :
            /\ v1 < v2
            /\ metric_index[i][j][v1] # metric_index[i][j][v2]
            /\ metric_index[i][j][v1] # RatZero

\* float(text) of a two-decimal text, in hundredths.
ParseHundredths(f) ==
    LET dot == CHOOSE k \in DOMAIN f : f[k] = "."
    IN 100 * ParseInt(SubSeq(f, 1, dot - 1)) + ParseInt(SubSeq(f, dot + 1, Len(f)))

\* The scores written in a row, in hundredths.
WrittenWiki(cols) == ParseHundredths(Stored(cols, "SCORE WIKI"))
WrittenMetrics(cols) == ParseHundredths(Stored(cols, "SCORE METRICS"))
WrittenConfidence(cols) == ParseHundredths(Stored(cols, "CONFIDENCE"))

\* The scores of a row before rounding.
RawWiki(cols) == ScoreWiki(headKB, ent_type_col, tagHash, metric_index, cols).val
RawMetrics(cols) == ScoreMetrics(headKB, ent_type_col, tagHash, metric_index, cols).val

Abs(x) == IF x < 0 THEN -x ELSE x

\* C6 (as stated): after insert_metrics, the CONFIDENCE written in a row is
\* (5 x SCORE WIKI + SCORE METRICS) / 6 of the values written in the row's
\* SCORE WIKI and SCORE METRICS fields, rounded to two decimals.
C6_ConfidenceOfWrittenScores ==
    Done =>
        \A n \in DOMAIN lines :
            WrittenConfidence(lines[n]) =
                RoundHalfEven(5 * WrittenWiki(lines[n]) + WrittenMetrics(lines[n]), 6)

\* C6 (amended): after insert_metrics, the CONFIDENCE written in a row is
\* (5 x sw + sm) / 6 rounded to two decimals, where sw and sm are the row's
\* scores before they are rounded for writing; it is within 0.01 of the
\* value computed from the two written fields.
C6_ConfidenceOfUnroundedScores ==
    Done =>
        \A n \in DOMAIN lines :
            /\ Stored(lines[n], "CONFIDENCE") =
                  Fmt2(Rat(5 * RawWiki(lines[n])[1] * RawMetrics(lines[n])[2]
                             + RawMetrics(lines[n])[1] * RawWiki(lines[n])[2],
                           6 * RawWiki(lines[n])[2] * RawMetrics(lines[n])[2]))
            /\ Abs(6 * WrittenConfidence(lines[n])
                     - (5 * WrittenWiki(lines[n]) + WrittenMetrics(lines[n]))) <= 6

\* A scored row whose CONFIDENCE is not the rounded average of its two
\* written scores.
C6_Witness ==
    /\ Done
    /\ \E n \in DOMAIN lines :
          WrittenConfidence(lines[n]) #
              RoundHalfEven(5 * WrittenWiki(lines[n]) + WrittenMetrics(lines[n]), 6)

\* text.split("\t") on the text of a written line.
RECURSIVE SplitTab(_, _)
SplitTab(text, cur) ==
    IF text = <<>> THEN <<cur>>
    ELSE IF Head(text) = "\t" THEN <<cur>> \o SplitTab(Tail(text), <<>>)
    ELSE SplitTab(Tail(text), Append(cur, Head(text)))

\* C7: save_changes on a loaded KB nothing has mutated writes the DATA
\* section back row for row and field for field, each row followed only by
\* empty padding fields; also when the HEAD has no __stats__ line.
C7_RoundTrip ==
    (/\ res.op = "save_changes"
     /\ kb_loaded
     /\ metrics = EmptyMap
     /\ headKB = getDictHeadKB(head).kb)
    => /\ res.exc = ""
       /\ Len(out.data) = Len(disk) + 1
       /\ \A n \in DOMAIN disk :
             /\ Len(SplitTab(out.data[n], <<>>)) >= Len(disk[n])
             /\ SubSeq(SplitTab(out.data[n], <<>>), 1, Len(disk[n])) = disk[n]
             /\ \A k \in (Len(disk[n]) + 1)..Len(SplitTab(out.data[n], <<>>)) :
                   SplitTab(out.data[n], <<>>)[k] = <<>>

\* save_changes has raised on a loaded, unmutated KB without a __stats__ line.
C7_Witness ==
    /\ res.op = "save_changes"
    /\ kb_loaded
    /\ STATS \notin HeadTypes(head)
    /\ res.exc = "KeyError"
    /\ out.written /\ out.data = <<>>

\* The type-set of the row a query named.
QueryTypes == get_ent_type(headKB, ent_type_col, lines[res.line])

\* The call in res was made on a row of the loaded KB whose types the schema
\* defines.
QueryOnRow ==
    /\ res.op \in QueryOps
    /\ kb_loaded
    /\ res.line \in DOMAIN lines
    /\ QueryTypes.exc = ""
    /\ \A k \in DOMAIN QueryTypes.val : QueryTypes.val[k] \in DOMAIN headKB

\* The blocks of the queried row that define the queried name.
Defining == {k \in DOMAIN QueryTypes.val : DictHas(headKB[QueryTypes.val[k]], res.name)}

\* C8: get_col_for and get_data_for called with a name that no block of the
\* row's type-set defines raise the column-not-found error and return
\* neither a column nor a value.
C8_UnknownNameRaises ==
    (QueryOnRow /\ Defining = {})
    => /\ res.exc = "RuntimeError: column name does not exist"
       /\ res.ret = NoneVal
       /\ res.val = <<>>

\* A name some type defines, asked for a row whose type-set does not.
C8_Witness ==
    /\ QueryOnRow /\ Defining = {}
    /\ res.op = "get_data_for"
    /\ res.name = "GENRE"
    /\ res.exc = "RuntimeError: column name does not exist"

\* C9: get_col_for given a type hint searches the hinted block only: it
\* fails if the hinted type is not in the row's type-set or does not define
\* the name, and otherwise returns the column inside the hinted block.
C9_HintRestrictsSearch ==
    (QueryOnRow /\ res.op = "get_col_for" /\ res.hint # "")
    => IF \E k \in DOMAIN QueryTypes.val :
             QueryTypes.val[k] = res.hint /\ DictHas(headKB[res.hint], res.name)
       THEN /\ res.exc = ""
            /\ \E k \in DOMAIN QueryTypes.val :
                  /\ QueryTypes.val[k] = res.hint
                  /\ res.ret = SumSeq([i \in 1..(k - 1) |->
                                          BlockWidth(headKB, QueryTypes.val[i])])
                               + DictGet(headKB[res.hint], res.name)
       ELSE res.exc # ""

\* A query hinted with __stats__, for a name the __stats__ block defines, has
\* returned a column in front of the __stats__ block.
C9_Witness ==
    /\ QueryOnRow /\ res.op = "get_col_for" /\ res.hint = STATS
    /\ res.exc = ""
    /\ \E k \in DOMAIN QueryTypes.val :
          /\ QueryTypes.val[k] = STATS
          /\ DictHas(headKB[STATS], res.name)
          /\ res.ret < SumSeq([i \in 1..(k - 1) |-> BlockWidth(headKB, QueryTypes.val[i])])

\* C10: get_col_for on a name some block of the row's type-set defines
\* returns the name's index in the row's layout: the HEAD fields of all
\* blocks before the first defining block, a field that registers no name
\* included, plus the name's offset in that block.
C10_LayoutIndex ==
    (QueryOnRow /\ res.op = "get_col_for" /\ res.hint = "" /\ Defining # {})
    => /\ res.exc = ""
       /\ \E k \in Defining :
             /\ \A i \in Defining : k <= i
             /\ res.ret = SumSeq([i \in 1..(k - 1) |->
                                     Len(HeadLineOf(head, QueryTypes.val[i]).cols)])
                          + DictGet(headKB[QueryTypes.val[k]], res.name)

\* A query has resolved a name past a block with a field that registers no
\* name.
C10_Witness ==
    /\ QueryOnRow /\ res.op = "get_col_for" /\ res.hint = ""
    /\ res.exc = ""
    /\ \E k \in Defining : \E i \in 1..(k - 1) :
          Len(HeadLineOf(head, QueryTypes.val[i]).cols) # BlockWidth(headKB, QueryTypes.val[i])

\* The rows are as the loader left them: no pass of insert_metrics has
\* touched them.
Untouched == kb_loaded /\ metrics = EmptyMap /\ metric_index = EmptyMap

\* The minimum expected column count of a row read from disk: the widths of
\* the blocks of its generic-augmented type-set.
MinExpected(row) ==
    SumSeq([i \in DOMAIN WithGeneric(headKB, OrderedSet(Split(row[ent_type_col + 1], type_delim))) |->
              BlockWidth(headKB,
                  WithGeneric(headKB, OrderedSet(Split(row[ent_type_col + 1], type_delim)))[i])])

\* Row n as loaded is row n of the DATA section followed by k empty fields.
PaddedBy(n, k) ==
    /\ Len(lines[n]) = Len(disk[n]) + k
    /\ SubSeq(lines[n], 1, Len(disk[n])) = disk[n]
    /\ \A c \in (Len(disk[n]) + 1)..Len(lines[n]) : lines[n][c] = <<>>

\* C11 (as stated): every row read by the loader is followed by exactly
\* max(0, minimum_expected - actual_count) + 6 empty fields, whatever its
\* length on disk.
C11_PaddingReservedAfterClamp ==
    Untouched =>
        \A n \in DOMAIN lines :
            PaddedBy(n, Max(MinExpected(disk[n]) - Len(disk[n]), 0) + Len(all_stats))

\* C11 (amended): every row read by the loader is followed by exactly
\* max(0, minimum_expected + 6 - actual_count) empty fields, so that it has
\* at least minimum_expected + 6 fields.
C11_PaddingToReservedWidth ==
    Untouched =>
        \A n \in DOMAIN lines :
            /\ PaddedBy(n, Max(MinExpected(disk[n]) + Len(all_stats) - Len(disk[n]), 0))
            /\ Len(lines[n]) >= MinExpected(disk[n]) + Len(all_stats)

\* A loaded row that is longer on disk than its minimum and got fewer than
\* six, but some, empty fields.
C11_Witness ==
    /\ Untouched
    /\ \E n \in DOMAIN lines :
          /\ Len(disk[n]) > MinExpected(disk[n])
          /\ Len(lines[n]) > Len(disk[n])
          /\ Len(lines[n]) < Len(disk[n]) + Len(all_stats)

\* The collect pass has just taken the observations of row k.
JustCollected(k) ==
    \/ pc = "collect" /\ line_num = k + 1
    \/ pc = "sort" /\ k = Len(lines)

\* The description_length observation the collect pass took last for the
\* bucket of a row.
LastDescriptionLength(cols) ==
    metrics[BucketOf(cols)]["description_length"][Len(metrics[BucketOf(cols)]["description_length"])]

\* C12: in the collect pass the description_length observation of a row is
\* the character length of its DESCRIPTION field; a row whose DESCRIPTION
\* field is missing or empty contributes the observation 0.
C12_ObservationIsFieldLength ==
    \A k \in DOMAIN lines :
        JustCollected(k) =>
            LastDescriptionLength(lines[k]) = StrLen(Stored(lines[k], "DESCRIPTION"))

\* A row with an empty DESCRIPTION field has been collected with the
\* observation 1.
C12_Witness ==
    \E k \in DOMAIN lines :
        /\ JustCollected(k)
        /\ Stored(lines[k], "DESCRIPTION") = <<>>
        /\ LastDescriptionLength(lines[k]) = 1

\* The schema as the HEAD parser built it, and the rows as the loader built
\* them.
SchemaAsParsed == headKB = getDictHeadKB(head).kb
LoadedRows == getKBLines(getDictHeadKB(head).kb, ent_type_col, disk, Len(disk)).val
RowsAsLoaded == lines = LoadedRows

\* An insert_metrics call has ended on a loaded KB whose schema does not
\* declare the three input statistics.
EndedWithoutStats ==
    pc = "idle" /\ res.op = "insert_metrics" /\ kb_loaded /\ ~StatsDeclared

\* C13: insert_metrics on a KB whose schema has no __stats__ block, or whose
\* __stats__ block lacks one of the three input statistics, returns normally
\* after the 'missing necessary stats' warning and leaves every row and the
\* schema as they were.
C13_MissingStatsReturnsNormally ==
    EndedWithoutStats =>
        /\ res.exc = ""
        /\ res.name = "missing neccessary stats"
        /\ SchemaAsParsed
        /\ RowsAsLoaded

\* insert_metrics has raised KeyError on a loaded KB without a __stats__
\* block.
C13_Witness ==
    /\ EndedWithoutStats
    /\ STATS \notin DOMAIN headKB
    /\ res.exc = "KeyError"
    /\ SchemaAsParsed
    /\ RowsAsLoaded

\* The row the scoring pass is at, and the same row once its SCORE WIKI
\* field is written.
ScoredRow == lines[line_num]
WikiWritten ==
    SetCol(headKB, ent_type_col, ScoredRow, "SCORE WIKI",
           Fmt2(ScoreWiki(headKB, ent_type_col, tagHash, metric_index, ScoredRow).val)).val

\* The raw value of a metric of a row is one the collect pass observed for
\* the row's bucket.
Observed(cols, metric) ==
    /\ MetricValue(headKB, ent_type_col, cols, metric).exc = ""
    /\ BucketOf(cols) \in DOMAIN metrics
    /\ metric \in DOMAIN metrics[BucketOf(cols)]
    /\ MetricValue(headKB, ent_type_col, cols, metric).val
           \in Range(metrics[BucketOf(cols)][metric])

\* The row's backlinks value is treated as present.
BacklinksPresent(cols) == get_wiki_value(headKB, ent_type_col, cols, "backlinks").val # <<>>

\* C14: in the scoring pass every percentile lookup made for a row finds an
\* entry of the table the index pass built: the wiki lookups on the row as
\* collected and the description_length and columns_number lookups on the
\* row with SCORE WIKI written raise nothing, the bucket key and the two raw
\* values are not changed by the write, the table has the metrics that were
\* observed, and every raw value looked up is one that was collected.
C14_LookupsFindTheirEntries ==
    pc = "score" =>
        /\ ScoreWiki(headKB, ent_type_col, tagHash, metric_index, ScoredRow).exc = ""
        /\ ScoreMetrics(headKB, ent_type_col, tagHash, metric_index, WikiWritten).exc = ""
        /\ BucketOf(WikiWritten) = BucketOf(ScoredRow)
        /\ DOMAIN metric_index[BucketOf(ScoredRow)] = DOMAIN metrics[BucketOf(ScoredRow)]
        /\ \A metric \in {"description_length", "columns_number"} :
              /\ Observed(ScoredRow, metric)
              /\ MetricValue(headKB, ent_type_col, WikiWritten, metric)
                   = MetricValue(headKB, ent_type_col, ScoredRow, metric)
              /\ metric_percentile(headKB, ent_type_col, tagHash, metric_index,
                                   WikiWritten, metric).exc = ""
        /\ BacklinksPresent(ScoredRow) =>
              \A metric \in {"wiki_backlinks", "wiki_hits", "wiki_ps"} :
                  /\ Observed(ScoredRow, metric)
                  /\ metric_percentile(headKB, ent_type_col, tagHash, metric_index,
                                       ScoredRow, metric).exc = ""

\* The scoring pass has written the three score fields of the first row,
\* which the loader had left empty, and is at the second row, of the same
\* bucket.
C14_Witness ==
    /\ pc = "score"
    /\ line_num = 2
    /\ BucketOf(lines[1]) = BucketOf(lines[2])
    /\ BacklinksPresent(lines[1])
    /\ \A name \in {"SCORE WIKI", "SCORE METRICS", "CONFIDENCE"} :
          /\ Stored(LoadedRows[1], name) = <<>>
          /\ Stored(lines[1], name) # <<>>

====
